---- MODULE Spec2Model ----
(***************************************************************************)
(* Model of gallerist.core.Gallerist: the image-variant generation        *)
(* pipeline (read, decode, normalise, per-size resize/encode/write) and   *)
(* its size policy and format registry.                                   *)
(***************************************************************************)
EXTENDS FiniteSets, Integers, Sequences, TLC

\* Bounds of the model.
MaxSide == 3      \* image sides and supplied resize_to values range over 1..MaxSide
MaxSizes == 2     \* longest size list supplied to the constructor
MaxCalls == 2     \* process_image calls made on one Gallerist

VARIABLES
    store,          \* Gallerist.store: the injected store (its capabilities)
    supplied,       \* the `sizes` argument of the constructor
    sizes,          \* Gallerist._sizes
    source,         \* what the store holds at source_image_path
    pc,             \* position of the current call
    entry,          \* "sync" (process_image) or "async" (process_image_async)
    error,          \* exception that ended the call, "" when none
    decoded,        \* the image as Image.open returned it
    image,          \* the image after parse_image
    image_format,   \* the ImageFormat chosen by get_format
    metadata,       \* the ImageMetadata under construction / returned
    todo,           \* position of the get_versions generator
    resized,        \* results of resize_to_max_side in this call
    reads,          \* store.read_file calls issued in this call
    writes,         \* store.write_file calls issued in this call
    files,          \* paths the store holds
    nextId,         \* ids handed out by new_id so far
    calls           \* calls started on this Gallerist

vars == <<store, supplied, sizes, source, pc, entry, error, decoded, image,
          image_format, metadata, todo, resized, reads, writes, files, nextId, calls>>

----------------------------------------------------------------------------
\* Format registry

JpegFormat == [mime |-> "image/jpeg", name |-> "JPEG", extension |-> ".jpg", quality |-> 80]
PJpegFormat == [mime |-> "image/pjpeg", name |-> "JPEG", extension |-> ".jpg", quality |-> 80]
PngFormat == [mime |-> "image/png", name |-> "PNG", extension |-> ".png", quality |-> -1]
GifFormat == [mime |-> "image/gif", name |-> "GIF", extension |-> ".gif", quality |-> -1]
MpoFormat == [mime |-> "image/mpo", name |-> "JPEG", extension |-> ".jpg", quality |-> 80]

default_formats == <<JpegFormat, PJpegFormat, PngFormat, GifFormat, MpoFormat>>

NoFormat == [mime |-> "", name |-> "", extension |-> "", quality |-> 0]

\* str.upper() on the format names that occur
Upper(s) ==
    CASE s = "jpeg" -> "JPEG"
      [] s = "png" -> "PNG"
      [] s = "gif" -> "GIF"
      [] OTHER -> s

\* str.lower() on the file extensions that occur
Lower(s) ==
    CASE s = ".JPG" -> ".jpg"
      [] s = ".JPEG" -> ".jpeg"
      [] s = ".PNG" -> ".png"
      [] s = ".GIF" -> ".gif"
      [] OTHER -> s

\* A path is modelled by its extension (os.path.splitext(path)[1]).
get_file_extension(path) == path

format_by_extension(path) ==
    LET extension == Lower(get_file_extension(path)) IN
    IF extension = ".jpg" \/ extension = ".jpeg" THEN "JPEG"
    ELSE IF extension = ".png" THEN "PNG"
    ELSE IF extension = ".gif" THEN "GIF"
    ELSE "None"

\* `x or 'JPEG'`
OrJpeg(x) == IF x = "None" \/ x = "" THEN "JPEG" ELSE x

\* get_format: [err, fmt]; hint "None" stands for a missing hint
get_format(img, hint) ==
    LET f1 == IF hint = "None" \/ hint = "" THEN img.format ELSE hint IN
    IF f1 = "None" \/ f1 = ""
    THEN [err |-> "MissingImageFormatError", fmt |-> NoFormat]
    ELSE LET f2 == Upper(f1)
             hits == {i \in 1..Len(default_formats) : default_formats[i].name = f2}
         IN IF hits = {}
            THEN [err |-> "FormatNotConfiguredWithNameError", fmt |-> NoFormat]
            ELSE [err |-> "",
                  fmt |-> default_formats[CHOOSE i \in hits : \A j \in hits : i <= j]]

----------------------------------------------------------------------------
\* Size policy

ImageSize(name, resize_to) == [name |-> name, resize_to |-> resize_to]

Star == "*"

EmptyMap == [k \in {} |-> <<>>]

default_sizes ==
    (Star :> <<ImageSize("medium", 1200), ImageSize("thumbnail", 200)>>)
    @@ ("image/gif" :> <<ImageSize("medium", 200), ImageSize("thumbnail", 120)>>)

\* sorted(...) with `reverse=True` left out
RECURSIVE InsertAsc(_, _)
InsertAsc(x, s) ==
    IF s = <<>> THEN <<x>>
    ELSE IF Head(s).resize_to <= x.resize_to
         THEN <<Head(s)>> \o InsertAsc(x, Tail(s))
         ELSE <<x>> \o s

RECURSIVE SortedAsc(_)
SortedAsc(items) ==
    IF items = <<>> THEN <<>>
    ELSE InsertAsc(items[Len(items)], SortedAsc(SubSeq(items, 1, Len(items) - 1)))

\* sorted(items, key=lambda x: x.resize_to, reverse=True): stable, descending
RECURSIVE InsertDesc(_, _)
InsertDesc(x, s) ==
    IF s = <<>> THEN <<x>>
    ELSE IF Head(s).resize_to >= x.resize_to
         THEN <<Head(s)>> \o InsertDesc(x, Tail(s))
         ELSE <<x>> \o s

RECURSIVE SortedDesc(_)
SortedDesc(items) ==
    IF items = <<>> THEN <<>>
    ELSE InsertDesc(items[Len(items)], SortedDesc(SubSeq(items, 1, Len(items) - 1)))

\* the sizes setter
SetSizes(value) == [key \in DOMAIN value |-> SortedDesc(value[key])]

\* __init__: `sizes or self.default_sizes`, through the setter
ConstructSizes(given) == SetSizes(IF given = EmptyMap THEN default_sizes ELSE given)

\* sizes_for_mime consulting the wildcard before the exact key
sizes_for_mime_wildcard_first(szs, image_mime) ==
    IF Star \in DOMAIN szs THEN [err |-> "", sizes |-> szs[Star]]
    ELSE IF image_mime \in DOMAIN szs THEN [err |-> "", sizes |-> szs[image_mime]]
    ELSE [err |-> "SizesNotConfiguredForMimeError", sizes |-> <<>>]

\* sizes_for_mime falling back to the default wildcard sizes instead of raising
sizes_for_mime_default(szs, image_mime) ==
    IF image_mime \in DOMAIN szs THEN [err |-> "", sizes |-> szs[image_mime]]
    ELSE IF Star \in DOMAIN szs THEN [err |-> "", sizes |-> szs[Star]]
    ELSE [err |-> "", sizes |-> default_sizes[Star]]

\* sizes_for_mime: [err, sizes]
sizes_for_mime(szs, image_mime) ==
    IF image_mime \in DOMAIN szs THEN [err |-> "", sizes |-> szs[image_mime]]
    ELSE IF Star \in DOMAIN szs THEN [err |-> "", sizes |-> szs[Star]]
    ELSE [err |-> "SizesNotConfiguredForMimeError", sizes |-> <<>>]

\* new_id returning the same id every time
new_id_constant(counter) == 0

\* new_id: str(uuid.uuid4()) without its hyphens, a value not handed out before;
\* `counter` is the number of ids handed out so far
new_id(counter) == counter

\* get_versions: ImageVersion(size.name, self.new_id(), size.resize_to)
ImageVersion(size_name, id, max_side) ==
    [size_name |-> size_name, id |-> id, max_side |-> max_side, file_name |-> <<>>]

\* size_name[0] for the size names in use
FirstChar(name) ==
    CASE name = "medium" -> "m"
      [] name = "thumbnail" -> "t"
      [] name = "mini" -> "m"
      [] name = "large" -> "l"
      [] OTHER -> name

\* f'{version.size_name[0]}-{version.id}{image_format.extension}', kept as its parts
get_image_name(version, fmt) == <<FirstChar(version.size_name), "-", version.id, fmt.extension>>

----------------------------------------------------------------------------
\* Normaliser

\* Image.rotate(angle) without expand=True: the canvas keeps its size
RotateNoExpand(img, angle) ==
    [format |-> "None", mode |-> img.mode, width |-> img.width, height |-> img.height,
     orientation |-> 0, n_frames |-> 1]

\* Image.rotate(angle, expand=True): a new image, no format, a single frame
Rotate(img, angle) ==
    [format |-> "None", mode |-> img.mode,
     width |-> IF angle = 180 THEN img.width ELSE img.height,
     height |-> IF angle = 180 THEN img.height ELSE img.width,
     orientation |-> 0, n_frames |-> 1]

\* Image.convert(mode): a new image, no format
Convert(img, mode) == [img EXCEPT !.format = "None", !.mode = mode, !.n_frames = 1]

\* orientation 0 stands for "no EXIF data / no orientation tag"
auto_rotate(img) ==
    IF img.orientation = 0 THEN img
    ELSE IF img.orientation = 3 THEN Rotate(img, 180)
    ELSE IF img.orientation = 6 THEN Rotate(img, 270)
    ELSE IF img.orientation = 8 THEN Rotate(img, 90)
    ELSE img

_verify_mode_and_rotation(img) ==
    IF img.format = "GIF" THEN img
    ELSE auto_rotate(IF img.mode = "CMK" THEN Convert(img, "RGB") ELSE img)

parse_image(data) == _verify_mode_and_rotation(data)

get_metadata(img, fmt) ==
    [width |-> img.width, height |-> img.height, extension |-> fmt.extension,
     mime |-> fmt.mime, versions |-> <<>>]

----------------------------------------------------------------------------
\* Resizer and encoder

Max(a, b) == IF a >= b THEN a ELSE b

\* int(b / (a / desired)).  Scaling happens only when desired < a, and for sides
\* below 9 the double-precision quotient truncates to the exact floor of
\* b * desired / a (from 9 on it can fall one short: int(9 / (9 / 7)) is 6).
OtherSide(a, b, desired) == (b * desired) \div a

\* resize_to_max_side without its `max_side <= desired_max_side` early return
ResizeDimsAlways(width, height, desired_max_side) ==
    IF width >= height
    THEN <<desired_max_side, OtherSide(width, height, desired_max_side)>>
    ELSE <<OtherSide(height, width, desired_max_side), desired_max_side>>

\* the target size `sc`, or the source's size when the image is returned as it is
ResizeDims(width, height, desired_max_side) ==
    IF Max(width, height) <= desired_max_side THEN <<width, height>>
    ELSE IF width >= height
         THEN <<desired_max_side, OtherSide(width, height, desired_max_side)>>
         ELSE <<OtherSide(height, width, desired_max_side), desired_max_side>>

\* the ImageWrapper returned: its image's size and mode, and its n_frames
resize_to_max_side(img, desired_max_side) ==
    LET sc == ResizeDims(img.width, img.height, desired_max_side) IN
    [width |-> sc[1], height |-> sc[2], mode |-> img.mode, n_frames |-> img.n_frames,
     format |-> img.format]

\* ImageFormat.to_bytes / GifFormat.to_bytes: what the encoded bytes decode to
to_bytes(fmt, wrapper) ==
    [format |-> wrapper.format, mode |-> wrapper.mode,
     width |-> wrapper.width, height |-> wrapper.height,
     n_frames |-> IF fmt.mime = "image/gif" THEN wrapper.n_frames ELSE 1]

----------------------------------------------------------------------------
\* Store

\* The stores of abc.py: SyncFileStore ("sync") and FileStore ("async").  A store
\* class decides whether its write_file can be called without `info`.
Stores == [kind : {"sync", "async"}, info_optional : BOOLEAN]

\* process_image / process_image_async without the isinstance check of the store
HasCapabilityUnchecked(st, e) == TRUE

\* isinstance(self.store, SyncFileStore) for "sync", isinstance(self.store, FileStore)
\* for "async"
HasCapability(st, e) == st.kind = e

\* Binding the arguments of a write_file(file_path, data, info) call
WriteAccepted(st, args) == Len(args) = 3 \/ (Len(args) = 2 /\ st.info_optional)

\* FileInfo(mime, extension)
FileInfo(mime, extension) == [mime |-> mime, extension |-> extension]

\* a write under the version's name without the format's extension
WriteCallNoExtension(image_name, data, fmt) == <<SubSeq(image_name, 1, 3), data>>

\* the arguments of the store.write_file call in _generate_images(_async)
WriteCall(image_name, data, fmt) == <<image_name, data>>

----------------------------------------------------------------------------
\* Inputs

SizeNames == <<"medium", "thumbnail", "mini", "large">>

Sides == 1..MaxSide

Orientations == {0, 1, 3, 6, 8}

\* decoded images: JPEG and PNG stills in several modes, GIFs of one or two frames
StillImages ==
    {[format |-> fm[1], mode |-> fm[2], width |-> w, height |-> h,
      orientation |-> o, n_frames |-> 1] :
        fm \in {<<"JPEG", "RGB">>, <<"JPEG", "CMYK">>, <<"PNG", "RGB">>, <<"PNG", "RGBA">>},
        w \in Sides, h \in Sides, o \in Orientations}

GifImages ==
    {[format |-> "GIF", mode |-> "P", width |-> w, height |-> h,
      orientation |-> 0, n_frames |-> n] : w \in Sides, h \in Sides, n \in {1, 2}}

Images == StillImages \cup GifImages

NoImage == [format |-> "None", mode |-> "", width |-> 0, height |-> 0,
            orientation |-> 0, n_frames |-> 0]

Paths == {".jpg", ".JPEG", ".png", ".gif", ""}

\* what store.read_file(path) does: returns None, returns b'', raises, returns image bytes
Sources ==
    {[path |-> p, kind |-> k, image |-> NoImage] : p \in Paths, k \in {"none", "empty", "raises"}}
    \cup {[path |-> p, kind |-> "image", image |-> i] : p \in Paths, i \in Images}

FewSources ==
    {[path |-> p, kind |-> "image", image |-> i] : p \in {".jpg", ".png"},
        i \in {j \in Images : j.width = MaxSide /\ j.height = 2 /\ j.orientation = 0
                              /\ j.mode = "RGB"}}

\* size lists of up to MaxSizes sizes, in any order, named by position
SizeLists ==
    UNION {{[i \in 1..n |-> ImageSize(SizeNames[i], f[i])] : f \in [1..n -> Sides]} :
           n \in 0..MaxSizes}

ManySizes ==
    {Star :> l : l \in SizeLists}
    \cup {"image/jpeg" :> l : l \in SizeLists}
    \cup {(Star :> <<ImageSize("mini", 1), ImageSize("large", MaxSide)>>) @@ ("image/jpeg" :> l) :
          l \in SizeLists}

FewSizes ==
    {EmptyMap,
     "image/jpeg" :> <<ImageSize("mini", 1), ImageSize("medium", 2)>>,
     (Star :> <<ImageSize("thumbnail", 1), ImageSize("medium", 2)>>)
        @@ ("image/png" :> <<ImageSize("medium", MaxSide)>>),
     Star :> <<ImageSize("mini", 2), ImageSize("medium", 2), ImageSize("large", MaxSide)>>}

----------------------------------------------------------------------------
\* State machine

Idle ==
    /\ pc = "idle"
    /\ entry = ""
    /\ error = ""
    /\ decoded = NoImage
    /\ image = NoImage
    /\ image_format = NoFormat
    /\ metadata = get_metadata(NoImage, NoFormat)
    /\ todo = 1
    /\ resized = <<>>
    /\ reads = 0
    /\ writes = <<>>

\* Gallerist(store, sizes): many sources, a few size policies, one call
InitSources ==
    /\ store \in Stores
    /\ supplied \in FewSizes
    /\ source \in Sources
    /\ calls = 1

\* many size policies, a few sources, one call
InitPolicies ==
    /\ store \in Stores
    /\ supplied \in ManySizes
    /\ source \in FewSources
    /\ calls = 1

\* a few size policies and sources, several calls
InitCalls ==
    /\ store \in Stores
    /\ supplied \in FewSizes
    /\ source \in FewSources
    /\ calls = MaxCalls

Init ==
    /\ InitSources \/ InitPolicies \/ InitCalls
    /\ sizes = ConstructSizes(supplied)
    /\ files = {}
    /\ nextId = 0
    /\ Idle

Fail(err) ==
    /\ pc' = "failed"
    /\ error' = err

\* process_image / process_image_async up to the call of _generate_images(_async)
Process(e) ==
    /\ pc = "idle"
    /\ calls > 0
    /\ calls' = calls - 1
    /\ entry' = e
    /\ UNCHANGED <<store, supplied, sizes, source, todo, resized, writes, files, nextId>>
    /\ reads' = (IF HasCapability(store, e) THEN reads + 1 ELSE reads)
    /\ IF ~HasCapability(store, e)
       THEN /\ Fail(IF e = "sync" THEN "ExpectedSyncStoreError" ELSE "ExpectedAsyncStoreError")
            /\ UNCHANGED <<decoded, image, image_format, metadata>>
       ELSE IF source.kind = "raises"
       THEN /\ Fail("FileNotFoundError")
            /\ UNCHANGED <<decoded, image, image_format, metadata>>
       ELSE IF source.kind = "none"
       THEN /\ Fail("SourceImageNotFoundError")
            /\ UNCHANGED <<decoded, image, image_format, metadata>>
       ELSE IF source.kind = "empty"
       THEN /\ Fail("UnidentifiedImageError")
            /\ UNCHANGED <<decoded, image, image_format, metadata>>
       ELSE LET img == parse_image(source.image)
                got == get_format(img, OrJpeg(format_by_extension(source.path)))
            IN /\ decoded' = source.image
               /\ image' = img
               /\ IF got.err # ""
                  THEN /\ Fail(got.err)
                       /\ UNCHANGED <<image_format, metadata>>
                  ELSE /\ image_format' = got.fmt
                       /\ metadata' = get_metadata(img, got.fmt)
                       /\ pc' = "generate"
                       /\ error' = ""

process_image == Process("sync")

process_image_async == Process("async")

\* the first next() of get_versions when sizes_for_mime raises
SizesNotConfigured ==
    /\ pc = "generate"
    /\ sizes_for_mime(sizes, image_format.mime).err # ""
    /\ Fail(sizes_for_mime(sizes, image_format.mime).err)
    /\ UNCHANGED <<store, supplied, sizes, source, entry, decoded, image, image_format,
                   metadata, todo, resized, reads, writes, files, nextId, calls>>

\* what an iteration of the loop leaves behind, by how far it got
StepOutcomes == {"ok", "encode_error", "write_error"}

\* a failed call deleting the variants it had written
FilesRolledBack(fs, ws) == fs \ {ws[i][1] : i \in DOMAIN ws}

\* the store's files after a failed call
FilesAfterFailure(fs, ws) == fs

\* one iteration of the loop of _generate_images / _generate_images_async
GenerateVersion ==
    /\ pc = "generate"
    /\ sizes_for_mime(sizes, image_format.mime).err = ""
    /\ todo <= Len(sizes_for_mime(sizes, image_format.mime).sizes)
    /\ LET size == sizes_for_mime(sizes, image_format.mime).sizes[todo]
           version == ImageVersion(size.name, new_id(nextId), size.resize_to)
           image_name == get_image_name(version, image_format)
           wrapper == [resize_to_max_side(image, version.max_side)
                         EXCEPT !.format = image_format.name]
           args == WriteCall(image_name, to_bytes(image_format, wrapper), image_format)
       IN /\ nextId' = nextId + 1
          /\ todo' = todo + 1
          /\ metadata' = [metadata EXCEPT
                            !.versions = Append(@, [version EXCEPT !.file_name = image_name])]
          /\ resized' = Append(resized, wrapper)
          /\ \E outcome \in StepOutcomes :
               IF outcome = "encode_error"
               THEN /\ Fail("EncodeError")
                    /\ writes' = writes
                    /\ files' = FilesAfterFailure(files, writes)
               ELSE /\ writes' = Append(writes, args)
                    /\ IF ~WriteAccepted(store, args)
                       THEN /\ Fail("TypeError")
                            /\ files' = FilesAfterFailure(files, writes)
                       ELSE IF outcome = "write_error"
                       THEN /\ Fail("StoreError")
                            /\ files' = FilesAfterFailure(files, writes)
                       ELSE /\ files' = files \cup {args[1]}
                            /\ UNCHANGED <<pc, error>>
    /\ UNCHANGED <<store, supplied, sizes, source, entry, decoded, image, image_format, reads,
                   calls>>

\* the loop is exhausted: `return metadata`
ReturnMetadata ==
    /\ pc = "generate"
    /\ sizes_for_mime(sizes, image_format.mime).err = ""
    /\ todo > Len(sizes_for_mime(sizes, image_format.mime).sizes)
    /\ pc' = "returned"
    /\ UNCHANGED <<store, supplied, sizes, source, entry, error, decoded, image, image_format,
                   metadata, todo, resized, reads, writes, files, nextId, calls>>

\* the caller has the result or the exception; the Gallerist is ready for another call
NextCall ==
    /\ pc \in {"returned", "failed"}
    /\ calls > 0
    /\ pc' = "idle"
    /\ entry' = ""
    /\ error' = ""
    /\ decoded' = NoImage
    /\ image' = NoImage
    /\ image_format' = NoFormat
    /\ metadata' = get_metadata(NoImage, NoFormat)
    /\ todo' = 1
    /\ resized' = <<>>
    /\ reads' = 0
    /\ writes' = <<>>
    /\ UNCHANGED <<store, supplied, sizes, source, files, nextId, calls>>

Next ==
    \/ process_image
    \/ process_image_async
    \/ SizesNotConfigured
    \/ GenerateVersion
    \/ ReturnMetadata
    \/ NextCall

Spec == Init /\ [][Next]_vars

----------------------------------------------------------------------------
\* Properties

\* the size list the loop of the current call iterates over
Policy == sizes_for_mime(sizes, image_format.mime).sizes

\* C1: when process_image or process_image_async has returned, the store has
\* received exactly one write per size configured for the image's MIME, in the
\* policy's order, the i-th write under metadata.versions[i].file_name, and every
\* version names a file the store holds.
C1_WritesMatchVersions ==
    pc = "returned" =>
        /\ Len(writes) = Len(Policy)
        /\ Len(metadata.versions) = Len(Policy)
        /\ \A i \in 1..Len(Policy) :
              /\ metadata.versions[i].size_name = Policy[i].name
              /\ metadata.versions[i].max_side = Policy[i].resize_to
              /\ writes[i][1] = metadata.versions[i].file_name
              /\ metadata.versions[i].file_name \in files

C1_Witness == pc = "returned" /\ Len(writes) >= 2 /\ Len(metadata.versions) >= 2

\* C2: the image format is the format the decoded image carries whenever it
\* carries one, the format of the path's extension only when it carries none, and
\* the call fails with MissingImageFormat when neither yields a format.
C2_DecoderFormatFirst ==
    decoded # NoImage =>
        IF image.format # "None"
        THEN image_format.name = image.format
        ELSE IF format_by_extension(source.path) # "None"
        THEN image_format.name = format_by_extension(source.path)
        ELSE error = "MissingImageFormatError"

\* C3: a non-GIF source whose mode is not RGB is converted to RGB before any
\* resize, so every variant written has mode RGB; a GIF keeps its mode.
C3_NonRgbConverted ==
    decoded # NoImage =>
        IF decoded.format = "GIF"
        THEN image.mode = decoded.mode
        ELSE /\ image.mode = "RGB"
             /\ \A i \in DOMAIN writes : writes[i][2].mode = "RGB"

\* C4: every write issued to the store carries the path, the bytes and a
\* file-info record with the mime and extension of the output format.
C4_WriteCarriesFileInfo ==
    \A i \in DOMAIN writes :
        /\ Len(writes[i]) = 3
        /\ writes[i][3] = FileInfo(image_format.mime, image_format.extension)

\* C5: when the store's read returns None or an empty byte string, the call
\* fails with SourceImageNotFound and issues no write.
C5_NoDataIsNotFound ==
    (entry # "" /\ store.kind = entry /\ source.kind \in {"none", "empty"}) =>
        /\ pc = "failed"
        /\ error = "SourceImageNotFoundError"
        /\ writes = <<>>

\* C6: when the iteration for size N fails, the call fails with the error, the
\* store keeps every file it held (so the variants of sizes 1..N-1), and from
\* then on the call returns no metadata, retries nothing and processes no
\* further size.
C6_FailureKeepsWritten ==
    [][/\ (pc = "generate" /\ pc' = "failed") =>
            /\ error' # ""
            /\ files' = files
            /\ \A i \in 1..(todo - 1) : writes[i][1] \in files'
       /\ pc = "failed" =>
            /\ pc' \in {"failed", "idle"}
            /\ files' = files
            /\ nextId' = nextId
            /\ pc' = "failed" => UNCHANGED <<error, metadata, todo, resized, writes>>]_vars

C6_Witness ==
    /\ pc = "failed"
    /\ error = "StoreError"
    /\ todo = 3
    /\ Len(writes) = 2
    /\ writes[1][1] \in files
    /\ writes[2][1] \notin files
    /\ Len(Policy) >= 3

\* C7: when neither the image's MIME nor "*" is a key of the sizes, the call
\* fails with SizesNotConfiguredForMime, and no resize, encode or write has
\* happened in it by then.
C7_NoSizesFailsBeforeWork ==
    /\ (image_format # NoFormat /\ image_format.mime \notin DOMAIN sizes
            /\ Star \notin DOMAIN sizes) =>
          /\ pc \in {"generate", "failed"}
          /\ pc = "failed" => error = "SizesNotConfiguredForMimeError"
          /\ resized = <<>>
          /\ writes = <<>>
          /\ metadata.versions = <<>>
    /\ error = "SizesNotConfiguredForMimeError" =>
          /\ image_format.mime \notin DOMAIN sizes
          /\ Star \notin DOMAIN sizes

C7_Witness ==
    /\ pc = "failed"
    /\ error = "SizesNotConfiguredForMimeError"
    /\ DOMAIN sizes # {}
    /\ image_format.mime = "image/png"

\* the MIME types of the registry
Mimes == {default_formats[i].mime : i \in DOMAIN default_formats}

\* C8: sizes_for_mime returns the entry keyed by the MIME when there is one, also
\* when "*" is a key; otherwise the "*" entry unchanged; otherwise it fails with
\* SizesNotConfiguredForMime.  The versions of a call follow the list so chosen.
C8_ExactThenWildcard ==
    /\ \A m \in Mimes :
          LET r == sizes_for_mime(sizes, m) IN
          IF m \in DOMAIN sizes THEN r.err = "" /\ r.sizes = sizes[m]
          ELSE IF Star \in DOMAIN sizes THEN r.err = "" /\ r.sizes = sizes[Star]
          ELSE r.err = "SizesNotConfiguredForMimeError"
    /\ image_format # NoFormat =>
          LET m == image_format.mime
              expected == IF m \in DOMAIN sizes THEN sizes[m]
                          ELSE IF Star \in DOMAIN sizes THEN sizes[Star] ELSE <<>>
          IN /\ Len(metadata.versions) <= Len(expected)
             /\ \A i \in DOMAIN metadata.versions :
                   /\ metadata.versions[i].size_name = expected[i].name
                   /\ metadata.versions[i].max_side = expected[i].resize_to
             /\ pc = "returned" =>
                   /\ Len(metadata.versions) = Len(expected)
                   /\ m \in DOMAIN sizes \/ Star \in DOMAIN sizes

C8_Witness ==
    /\ pc = "returned"
    /\ Star \in DOMAIN sizes
    /\ image_format.mime \in DOMAIN sizes
    /\ sizes[Star] # sizes[image_format.mime]
    /\ Len(metadata.versions) >= 2

\* occurrences of x in the sequence s
Count(s, x) == Cardinality({i \in DOMAIN s : s[i] = x})

\* the mapping the constructor was given, or the defaults
Given == IF supplied = EmptyMap THEN default_sizes ELSE supplied

\* C9: every size list the Gallerist holds is in descending order of resize_to
\* and holds exactly the sizes supplied for its key (or the defaults), whatever
\* their order was; the versions of returned metadata are in that order.
C9_SizesDescending ==
    /\ DOMAIN sizes = DOMAIN Given
    /\ \A k \in DOMAIN sizes :
          /\ \A i \in 1..(Len(sizes[k]) - 1) :
                sizes[k][i].resize_to >= sizes[k][i + 1].resize_to
          /\ Len(sizes[k]) = Len(Given[k])
          /\ \A i \in DOMAIN Given[k] :
                Count(sizes[k], Given[k][i]) = Count(Given[k], Given[k][i])
    /\ pc = "returned" =>
          \A i \in 1..(Len(metadata.versions) - 1) :
              metadata.versions[i].max_side >= metadata.versions[i + 1].max_side

C9_Witness ==
    /\ pc = "returned"
    /\ Len(metadata.versions) >= 2
    /\ metadata.versions[1].max_side > metadata.versions[2].max_side
    /\ \E k \in DOMAIN supplied :
          /\ Len(supplied[k]) >= 2
          /\ supplied[k][1].resize_to < supplied[k][2].resize_to
          /\ sizes[k] = Policy

\* C10: a resize to a max side the image's longer side does not exceed gives
\* back the image's own width and height, and so does the variant written.
C10_NoUpscale ==
    \A i \in DOMAIN resized :
        Max(image.width, image.height) <= metadata.versions[i].max_side =>
            /\ resized[i].width = image.width
            /\ resized[i].height = image.height
            /\ i \in DOMAIN writes =>
                  /\ writes[i][2].width = image.width
                  /\ writes[i][2].height = image.height

C10_Witness ==
    /\ pc = "returned"
    /\ Len(writes) >= 2
    /\ \A i \in DOMAIN writes :
          /\ Max(image.width, image.height) < metadata.versions[i].max_side
          /\ writes[i][2].width = image.width
          /\ writes[i][2].height = image.height
    /\ image.width # image.height

\* round(n / d): the quotient to the nearest integer, a tie to the even one
RoundDiv(n, d) ==
    LET q == n \div d
        r == n % d
    IN IF 2 * r < d THEN q
       ELSE IF 2 * r > d THEN q + 1
       ELSE IF q % 2 = 0 THEN q ELSE q + 1

Min(a, b) == IF a <= b THEN a ELSE b

\* C11: when the image's long side exceeds the desired max side, the result's
\* long side is the desired max side and its short side is the proportional
\* value short * desired / long rounded to the nearest integer.
C11_ShortSideRounded ==
    \A i \in DOMAIN resized :
        LET desired == metadata.versions[i].max_side
            long == Max(image.width, image.height)
            short == Min(image.width, image.height)
        IN long > desired =>
              /\ Max(resized[i].width, resized[i].height) = desired
              /\ Min(resized[i].width, resized[i].height) = RoundDiv(short * desired, long)
              /\ (image.width >= image.height) = (resized[i].width >= resized[i].height)

\* C15: whenever resize_to_max_side scales an image, both target dimensions are
\* at least 1 pixel.
C15_ScaledSidesPositive ==
    \A i \in DOMAIN resized :
        (/\ image.width >= 1
         /\ image.height >= 1
         /\ metadata.versions[i].max_side >= 1
         /\ Max(image.width, image.height) > metadata.versions[i].max_side) =>
            /\ resized[i].width >= 1
            /\ resized[i].height >= 1

\* C13: the width and height of the metadata are those of the source after
\* normalisation (swapped by the 90 and 270 degree rotations of EXIF orientations
\* 8 and 6) and before any resize; once a call has them, no step of it changes
\* them.
C13_MetadataDimensions ==
    /\ [](image_format # NoFormat =>
            LET swapped == decoded.format # "GIF" /\ decoded.orientation \in {6, 8} IN
            /\ metadata.width = (IF swapped THEN decoded.height ELSE decoded.width)
            /\ metadata.height = (IF swapped THEN decoded.width ELSE decoded.height)
            /\ metadata.width = image.width
            /\ metadata.height = image.height)
    /\ [][pc = "generate" =>
            /\ metadata'.width = metadata.width
            /\ metadata'.height = metadata.height]_vars

C13_Witness ==
    /\ pc = "returned"
    /\ decoded.orientation = 6
    /\ decoded.width > decoded.height
    /\ metadata.width = decoded.height
    /\ metadata.height = decoded.width
    /\ Len(resized) >= 2
    /\ \E i \in DOMAIN resized : resized[i].height < metadata.height

\* the paths of the writes of the current call
CallPaths == {writes[i][1] : i \in DOMAIN writes}

\* C12: every version's file_name is the first character of its size_name, a
\* hyphen, its id and the output format's extension; no two versions of a call
\* share a file_name or an id, also when their size names start with the same
\* letter; and no id of the call is the id of a file an earlier call wrote.
C12_FileNames ==
    /\ \A i \in DOMAIN metadata.versions :
          LET v == metadata.versions[i] IN
          /\ v.file_name = <<FirstChar(v.size_name), "-", v.id, metadata.extension>>
          /\ \A j \in DOMAIN metadata.versions :
                i # j => /\ v.file_name # metadata.versions[j].file_name
                         /\ v.id # metadata.versions[j].id
          /\ \A f \in files \ CallPaths : f[3] # v.id

C12_Witness ==
    /\ pc = "returned"
    /\ Len(metadata.versions) >= 3
    /\ \E i, j \in DOMAIN metadata.versions :
          /\ i # j
          /\ metadata.versions[i].size_name # metadata.versions[j].size_name
          /\ metadata.versions[i].file_name[1] = metadata.versions[j].file_name[1]
    /\ files \ CallPaths # {}

\* C14: a call whose entry point the store has no capability for fails with
\* ExpectedSyncStore (process_image) or ExpectedAsyncStore (process_image_async)
\* before any read or write of the store; the error arises only in such a call,
\* never at construction.
C14_WrongStoreFailsFirst ==
    /\ (entry # "" /\ store.kind # entry) =>
          /\ pc = "failed"
          /\ error = (IF entry = "sync" THEN "ExpectedSyncStoreError"
                      ELSE "ExpectedAsyncStoreError")
          /\ reads = 0
          /\ writes = <<>>
          /\ decoded = NoImage
    /\ error \in {"ExpectedSyncStoreError", "ExpectedAsyncStoreError"} =>
          /\ entry # ""
          /\ store.kind # entry

C14_Witness ==
    /\ pc = "failed"
    /\ entry = "async"
    /\ store.kind = "sync"
    /\ error = "ExpectedAsyncStoreError"
    /\ source.kind = "image"
    /\ reads = 0

====
